---- MODULE Spec2Model ----
(***************************************************************************)
(* Model of the slidemint-api render backend (src/backend/index.mjs):      *)
(* the synchronous POST /generate route, the async jobs API (POST /jobs,   *)
(* runJob, GET /jobs/:id), createSlideshow with its helpers, and the image *)
(* resolver (buildCandidates / resolveImageBuffer); and of the services    *)
(* around it: the credits ledger (services/credits.mjs) behind             *)
(* creditsGuard, the Lemon webhook's signature check (routes/generate.js)  *)
(* and the /generate variant that skips failed fetches (unnamed/part_014). *)
(*                                                                         *)
(* One action is one turn of the Node event loop: the synchronous code of  *)
(* a handler or of a promise continuation up to its next await.            *)
(* Durations are in milliseconds (0.5 s = 500).                            *)
(***************************************************************************)
EXTENDS Integers, Sequences, FiniteSets, TLC

\* ------------------------------------------------------------------ bounds
MaxImages == 2     \* images of one request
MaxLoops == 2      \* largest loopCount a request asks for
MaxBoots == 1      \* process restarts (RestartSpec only)
MaxFixed == 3      \* candidates whose server answer a scenario fixes

\* ------------------------------------------------------- program constants
DEFAULT_DURATION == 1000
MIN_DURATION == 500
DEFAULT_LOOP_COUNT == 1
MIN_BYTES == 5000
IMAGE_CAP == 12

\* values a JSON body can carry where a number is expected
JsNum(v) == [t |-> "number", v |-> v]
NoVal == [t |-> "undefined", v |-> 0]   \* key absent (or null): ?? picks the default
NaNVal == [t |-> "NaN", v |-> 0]        \* a value Number() maps to NaN ("abc", {})

\* The requests of a behaviour (each is one POST /generate or POST /jobs):
\* two, so that any two renders can overlap in every way.
Req == {1, 2}
MaxUuid == 3 * Cardinality(Req)    \* a request draws at most three uuids
Uuid == 1..MaxUuid

Max2(a, b) == IF a >= b THEN a ELSE b

\* ---------------------------------------------------------------- uuidv4
\* uuidv4(): no two calls return the same value.  The value is named after
\* the call: the k-th one made for request r (1: the job id or file name,
\* 2: the slide directory, 3: the loop directory).
uuidv4_fixed(r, k) == 1

uuidv4(r, k) == 3 * (r - 1) + k

\* ------------------------------------------------------------------- URLs
\* A raw input is a URL record.  valid: new URL(u) parses; ebay: hostname
\* matches /(^|\.)ebayimg\.com$/i; shape: the pathname contains /images/,
\* /dd/s/ or neither; stem: the path before the last segment; tok/size/ext:
\* the last segment is s-l<size>.<ext>, w<size>.<ext>, h<size>.<ext>,
\* $_<size>.<ext> or something else; upper: the path has upper-case letters;
\* query: the URL has a query string.
SizeTokens == {"s-l", "w", "h", "$_"}

\* the extensions the patterns take, in any case: (jpg|jpeg|png|webp)$/i
ImageExts == {"jpg", "jpeg", "png", "webp"}

MkUrl(valid, ebay, shape, stem, tok, size, ext, upper, query) ==
  [valid |-> valid, ebay |-> ebay, shape |-> shape, stem |-> stem, tok |-> tok,
   size |-> size, ext |-> ext, upper |-> upper, query |-> query]

\* forceVariant(u, size): strip the query, rewrite a size token to s-l<size>.jpg
forceVariant(u, size) ==
  IF ~u.valid THEN u
  ELSE IF u.tok \in SizeTokens /\ u.ext \in ImageExts
       THEN [u EXCEPT !.query = FALSE, !.tok = "s-l", !.size = size, !.ext = "jpg"]
       ELSE [u EXCEPT !.query = FALSE]

\* toOriginal57(u): strip the query, rewrite s-l/w/h tokens to $_57.jpg
toOriginal57(u) ==
  IF ~u.valid THEN u
  ELSE IF u.tok \in {"s-l", "w", "h"} /\ u.ext \in ImageExts
       THEN [u EXCEPT !.query = FALSE, !.tok = "$_", !.size = 57, !.ext = "jpg"]
       ELSE [u EXCEPT !.query = FALSE]

LegacySizes == <<1200, 1000, 800, 640, 500>>
ModernSizes == <<1600, 1200, 1000, 800, 500>>

\* buildCandidates(u): the size ladder, then the $_57 original, then u itself
buildCandidates_rawfirst(u) ==
  IF ~u.valid THEN <<u>>
  ELSE LET sizes == IF u.shape = "legacy" THEN LegacySizes ELSE ModernSizes
       IN  <<u>> \o [k \in 1..Len(sizes) |-> forceVariant(u, sizes[k])]
             \o <<toOriginal57(u)>>

buildCandidates(u) ==
  IF ~u.valid THEN <<u>>
  ELSE LET sizes == IF u.shape = "legacy" THEN LegacySizes ELSE ModernSizes
       IN  [k \in 1..Len(sizes) |-> forceVariant(u, sizes[k])]
             \o <<toOriginal57(u), u>>

\* JavaScript null, as a record so that it compares with URL records
Null == [null |-> TRUE]

\* normalizeEbayUrl(u)
normalizeEbayUrl_grow(u) ==
  IF ~u.valid THEN Null
  ELSE IF ~u.ebay THEN Null
  ELSE IF u.shape = "other" THEN Null
  ELSE forceVariant(u, u.size + 1600)

normalizeEbayUrl(u) ==
  IF ~u.valid THEN Null
  ELSE IF ~u.ebay THEN Null
  ELSE IF u.shape = "other" THEN Null
  ELSE forceVariant(u, 1600)

\* new URL(n).pathname.toLowerCase()
DedupeKey(n) == <<n.shape, n.stem, n.tok, n.size, n.ext>>

\* an element of imageUrls that is not a string (a number, null, an object)
NonString == [nonstring |-> TRUE]

\* line 265: if (out.length >= 12) break
CapReached_never(out) == FALSE

CapReached(out) == Len(out) >= IMAGE_CAP

RECURSIVE cleanLoop(_, _, _)
cleanLoop(arr, seen, out) ==
  IF arr = <<>> THEN out
  ELSE IF Head(arr) = NonString THEN cleanLoop(Tail(arr), seen, out)
  ELSE LET n == normalizeEbayUrl(Head(arr))
       IN  IF n = Null THEN cleanLoop(Tail(arr), seen, out)
           ELSE IF DedupeKey(n) \in seen THEN cleanLoop(Tail(arr), seen, out)
           ELSE IF CapReached(Append(out, n)) THEN Append(out, n)
           ELSE cleanLoop(Tail(arr), seen \cup {DedupeKey(n)}, Append(out, n))

\* The imageUrls of a request body: array says whether it is an array at all
\* (a missing key, a string, an object are not), items are its elements.
MkList(array, items) == [array |-> array, items |-> items]

\* cleanEbayImages(arr)
cleanEbayImages(arr) == IF ~arr.array THEN <<>> ELSE cleanLoop(arr.items, {}, <<>>)

\* ---------------------------------------------------------------- credits
\* services/credits.mjs works on one licence key here.  Its row in licences
\* is absent or holds credits_total and credits_used; a credit_txns row holds
\* delta, reason and ref (ref 0: null).
MaxCalls == 2      \* calls of addCredits and consumeCredits in a behaviour
MaxFails == 1      \* queries that fail in a behaviour

Calls == 1..MaxCalls
\* the connections of the pool: two, so that two transactions can be open
Conns == {1, 2}

NoRow == [exists |-> FALSE, total |-> 0, used |-> 0]
Row(total, used) == [exists |-> TRUE, total |-> total, used |-> used]
TxnRow(delta, reason, ref) == [delta |-> delta, reason |-> reason, ref |-> ref]

\* row0: the row before the first call (history); fails: failed queries
IdleDb == [row |-> NoRow, txns |-> <<>>, row0 |-> NoRow, fails |-> 0]

\* A connection: checked out or not; the transaction block open on it
\* ("idle": none, "open", "aborted": failed and waiting for ROLLBACK); the
\* uncommitted writes of that transaction (the row version, if wrote, and
\* the credit_txns rows); whether it holds the lock of the licence's row.
IdleConn == [busy |-> FALSE, txn |-> "idle", wrote |-> FALSE, row |-> NoRow,
             ins |-> <<>>, lock |-> FALSE]

NoOut == [t |-> "none", ok |-> FALSE, remaining |-> 0]
IdleCall == [op |-> "none", pc |-> "idle", k |-> 0, amount |-> 0, reason |-> "",
             ref |-> 0, seen |-> NoRow, out |-> NoOut, guard |-> "none"]

\* ------------------------------------------------------------------ state
VARIABLES
  jobs,    \* the jobs Map: job id -> record (status "none": no entry)
  fs,      \* the file system: path -> "absent" | "dir" | "partial" | "complete"
  req,     \* per request slot: its inputs and the position of its handler,
           \* of runJob and of createSlideshow
  resp,    \* the last response of GET /jobs/:id
  boots,   \* number of process restarts
  rUrl,    \* resolveImageBuffer: its argument
  rWorld,  \* what the image servers answer for the first candidates, where a
           \* scenario fixes it beforehand (empty: nothing is fixed)
  rIdx,    \* resolveImageBuffer: index of the candidate the loop is at
  rTried,  \* history: the URLs fetched so far, in order
  rLast,   \* history: what the last attempt met
  rGood,   \* history: the first attempt that met a usable image (0: none yet)
  rResult, \* resolveImageBuffer: pending, or how it ended
  pArg,    \* a helper called on its own: its argument
  pRes,    \* the values it returned so far, in order
  db,      \* the credits database: the licence's row and credit_txns
  pool,    \* the pg connections, each with the transaction open on it
  call     \* the calls of addCredits and consumeCredits and where each is

jobVars == <<jobs, fs, req, resp, boots>>
resolveVars == <<rUrl, rWorld, rIdx, rTried, rLast, rGood, rResult>>
pureVars == <<pArg, pRes>>
creditVars == <<db, pool, call>>
vars == <<jobs, fs, req, resp, boots, rUrl, rWorld, rIdx, rTried, rLast, rGood, rResult,
         pArg, pRes, db, pool, call>>

\* Paths.  stills/<u> and loop/<u> are the temporary directories under
\* os.tmpdir(); video/<id> is public/videos/video-<id>.mp4 and once/<id> is
\* public/videos/video-<id>-once.mp4.
StillsDir(u) == <<"slidemint-stills", u>>
LoopDir(u) == <<"slidemint-loop", u>>
VideoFile(id) == <<"video", id>>
OnceFile(id) == <<"video-once", id>>
Paths == {"slidemint-stills", "slidemint-loop", "video", "video-once"} \X Uuid

NoJob == [status |-> "none", error |-> "", url |-> 0]
JobRec(status, error, url) == [status |-> status, error |-> error, url |-> url]

IdleReq ==
  [kind |-> "free", n |-> 0, duration |-> NoVal, loopCount |-> NoVal,
   id |-> 0, tmpDir |-> 0, loopDir |-> 0,
   cs |-> "none", err |-> "", i |-> 0, slideFiles |-> <<>>,
   manifest |-> <<>>, loopList |-> 0,
   timer |-> "none", race |-> "none", http |-> 0, count |-> 0,
   \* history.  okImgs: the images whose preparation has succeeded in the
   \* running createSlideshow; survivors: "none" or "some" once all images
   \* were tried; hist: the statuses written to the job's record; counts of
   \* the writeConcatList calls and of the encoder runs started
   okImgs |-> <<>>, survivors |-> "", hist |-> <<>>,
   listWrites |-> 0, renderCalls |-> 0, loopCalls |-> 0]

NoResp == [code |-> 0, ok |-> FALSE, status |-> "", url |-> 0, error |-> "",
           id |-> 0, hadRecord |-> FALSE, fileExisted |-> FALSE]

\* ----------------------------------------------------------------- inputs
Durations == {NoVal, JsNum(0), JsNum(300)}
LoopCounts == {NoVal} \cup {JsNum(k) : k \in 1..MaxLoops}

\* x ?? dflt
Coalesce(x, dflt) == IF x = NoVal THEN JsNum(dflt) ELSE x

\* Number(x) || dflt
NumberOr(x, dflt) == IF x.t # "number" \/ x.v = 0 THEN dflt ELSE x.v

\* createSlideshow line 219: Math.max(MIN_DURATION, Number(durationSec) || DEFAULT_DURATION)
PerSlide(durationSec) == Max2(MIN_DURATION, NumberOr(durationSec, DEFAULT_DURATION))

\* createSlideshow line 229 and loopMp4Copy line 174
Loops_once(loopCount) == 1

Loops(loopCount) == Max2(1, Max2(1, NumberOr(loopCount, 1)))

\* writeConcatList(slideFiles, durations, listPath): the lines after the header;
\* a slide file is named by its index, -1 is the text 'undefined'.
RECURSIVE concatLines(_, _)
concatLines(slideFiles, durations) ==
  IF slideFiles = <<>> THEN <<>>
  ELSE <<[t |-> "file", f |-> Head(slideFiles)], [t |-> "duration", d |-> Head(durations)]>>
         \o concatLines(Tail(slideFiles), Tail(durations))

writeConcatList_norepeat(slideFiles, durations) ==
  concatLines(slideFiles, durations)

writeConcatList(slideFiles, durations) ==
  concatLines(slideFiles, durations)
    \o <<[t |-> "file",
          f |-> IF slideFiles = <<>> THEN -1 ELSE slideFiles[Len(slideFiles)]]>>

\* Sample URLs of request bodies: one gallery image per stem, a second
\* spelling of stem 1 (other size token, with a query), a URL of another host.
GalleryUrl(stem) == MkUrl(TRUE, TRUE, "images", stem, "s-l", 64, "jpg", FALSE, FALSE)
SecondSpelling == MkUrl(TRUE, TRUE, "images", 1, "w", 300, "png", FALSE, TRUE)
OtherHost == MkUrl(TRUE, FALSE, "images", 1, "s-l", 64, "jpg", FALSE, FALSE)

Gallery(m) == [k \in 1..m |-> GalleryUrl(k)]

\* imageUrls of POST /jobs bodies: no array, m gallery images, the same with
\* the second spelling appended, the same after a URL of another host
JobsInputs ==
  {MkList(FALSE, <<>>)}
    \cup {MkList(TRUE, Gallery(m)) : m \in 0..MaxImages}
    \cup {MkList(TRUE, Append(Gallery(m), SecondSpelling)) : m \in 1..MaxImages}
    \cup {MkList(TRUE, <<OtherHost>> \o Gallery(m)) : m \in 0..MaxImages}

\* imageUrls of POST /generate bodies (the route does not look at the items)
GenerateInputs ==
  {MkList(FALSE, <<>>)} \cup {MkList(TRUE, [k \in 1..n |-> GalleryUrl(1)]) : n \in 0..MaxImages}

\* ----------------------------------------------------- resolveImageBuffer
\* What one fetch of a candidate meets: a network error or timeout (the
\* fetch throws), or a response with a status (ok: 2xx), a body of len bytes
\* and image data that sharp can or cannot decode.
FetchError == [net |-> "error", ok |-> FALSE, len |-> 0, decodes |-> FALSE]
Attempts ==
  {FetchError}
    \cup [net : {"response"}, ok : BOOLEAN,
          len : {0, MIN_BYTES - 1, MIN_BYTES, 8 * MIN_BYTES}, decodes : BOOLEAN]

\* the candidate serves a real image
Usable(att) == att.net = "response" /\ att.ok /\ att.len >= MIN_BYTES /\ att.decodes

\* One pass of the loop body, lines 103-108: "return" the candidate, go to the
\* "next" one, or "throw" out of resolveImageBuffer.
TryCandidate_nodecode(att) ==
  IF att.net = "error" THEN "next"
  ELSE IF ~att.ok THEN "next"
  ELSE IF att.len < MIN_BYTES THEN "next"
  ELSE "return"

TryCandidate(att) ==
  IF att.net = "error" THEN "next"              \* fetch threw: caught
  ELSE IF ~att.ok THEN "next"                   \* line 52 threw: caught
  ELSE IF att.len < MIN_BYTES THEN "next"       \* line 105
  ELSE IF ~att.decodes THEN "next"              \* line 106 threw: caught
  ELSE "return"

Ended(t, url, buf) == [t |-> t, url |-> url, buf |-> buf]

\* the URLs resolveImageBuffer is called with
ResolveInputs ==
  {MkUrl(TRUE, TRUE, sh, 1, tk, IF tk = "other" THEN 0 ELSE 64, "jpg", FALSE, qy) :
     sh \in {"images", "legacy", "other"}, tk \in SizeTokens \cup {"other"}, qy \in BOOLEAN}
    \cup {MkUrl(FALSE, FALSE, "other", 1, "other", 0, "jpg", FALSE, FALSE)}

ResolveInit ==
  /\ jobs = [id \in Uuid |-> [status |-> "none", error |-> "", url |-> 0]]
  /\ fs = [p \in {"slidemint-stills", "slidemint-loop", "video", "video-once"} \X Uuid
            |-> "absent"]
  /\ req = [r \in Req |-> IdleReq]
  /\ resp = [code |-> 0, ok |-> FALSE, status |-> "", url |-> 0, error |-> "",
             id |-> 0, hadRecord |-> FALSE, fileExisted |-> FALSE]
  /\ boots = 0
  /\ rUrl \in ResolveInputs
  /\ rWorld = <<>>
  /\ rIdx = 1
  /\ rTried = <<>>
  /\ rLast = FetchError
  /\ rGood = 0
  /\ rResult = Ended("pending", Null, 0)
  /\ pArg = Null
  /\ pRes = <<>>
  /\ db = IdleDb
  /\ pool = [k \in Conns |-> IdleConn]
  /\ call = [c \in Calls |-> IdleCall]

\* the loop of resolveImageBuffer fetches candidate rIdx and meets att
ResolveTry(att) ==
  LET candidates == buildCandidates(rUrl)
      cand == candidates[rIdx]
      v == TryCandidate(att)
  IN  /\ rResult.t = "pending"
      /\ rTried' = Append(rTried, cand)
      /\ rLast' = att
      /\ rGood' = IF rGood = 0 /\ Usable(att) THEN rIdx ELSE rGood
      /\ IF v = "return"
         THEN /\ rResult' = Ended("found", cand, rIdx)
              /\ UNCHANGED rIdx
         ELSE IF v = "throw"
         THEN /\ rResult' = Ended("threw", Null, 0)
              /\ UNCHANGED rIdx
         ELSE /\ rIdx' = rIdx + 1
              /\ rResult' = IF rIdx = Len(candidates)
                            THEN Ended("null", Null, 0) ELSE rResult
      /\ UNCHANGED <<rUrl, rWorld, jobVars, pureVars, creditVars>>

ResolveNext == \E att \in Attempts : ResolveTry(att)

\* Scenarios in which the answers of the servers for the first MaxFixed
\* candidates are fixed beforehand: unreachable, a body too small, a large
\* body that is no image, a real image.
WorldAttempts ==
  {FetchError,
   [net |-> "response", ok |-> FALSE, len |-> 0, decodes |-> FALSE],
   [net |-> "response", ok |-> TRUE, len |-> MIN_BYTES - 1, decodes |-> TRUE],
   [net |-> "response", ok |-> TRUE, len |-> MIN_BYTES, decodes |-> FALSE],
   [net |-> "response", ok |-> TRUE, len |-> MIN_BYTES, decodes |-> TRUE]}

LadderInputs ==
  {MkUrl(TRUE, TRUE, sh, 1, tk, 64, "jpg", FALSE, FALSE) :
     sh \in {"images", "legacy", "other"}, tk \in SizeTokens}

LadderInit ==
  /\ jobs = [id \in Uuid |-> [status |-> "none", error |-> "", url |-> 0]]
  /\ fs = [p \in {"slidemint-stills", "slidemint-loop", "video", "video-once"} \X Uuid
            |-> "absent"]
  /\ req = [r \in Req |-> IdleReq]
  /\ resp = [code |-> 0, ok |-> FALSE, status |-> "", url |-> 0, error |-> "",
             id |-> 0, hadRecord |-> FALSE, fileExisted |-> FALSE]
  /\ boots = 0
  /\ rUrl \in LadderInputs
  /\ rWorld \in [1..MaxFixed -> WorldAttempts]
  /\ rIdx = 1
  /\ rTried = <<>>
  /\ rLast = FetchError
  /\ rGood = 0
  /\ rResult = Ended("pending", Null, 0)
  /\ pArg = Null
  /\ pRes = <<>>
  /\ db = IdleDb
  /\ pool = [k \in Conns |-> IdleConn]
  /\ call = [c \in Calls |-> IdleCall]

\* the fetch of candidate rIdx meets what the scenario fixed for it
LadderNext ==
  \E att \in Attempts :
    /\ rIdx \in DOMAIN rWorld => att = rWorld[rIdx]
    /\ ResolveTry(att)

\* ------------------------------------------------------------------- Init
JobInit ==
  /\ jobs = [id \in Uuid |-> NoJob]
  /\ fs = [p \in Paths |-> "absent"]
  /\ req = [r \in Req |-> IdleReq]
  /\ resp = NoResp
  /\ boots = 0

ResolveIdle ==
  /\ rUrl = Null
  /\ rWorld = <<>>
  /\ rIdx = 0
  /\ rTried = <<>>
  /\ rLast = Null
  /\ rGood = 0
  /\ rResult = Ended("idle", Null, 0)

PureIdle ==
  /\ pArg = Null
  /\ pRes = <<>>

CreditIdle ==
  /\ db = IdleDb
  /\ pool = [k \in Conns |-> IdleConn]
  /\ call = [c \in Calls |-> IdleCall]

Init == JobInit /\ ResolveIdle /\ PureIdle /\ CreditIdle

\* ------------------------------------------------- promises and the timer
\* Promise.race (runJob lines 356-359): the race takes the first settlement,
\* every later one is ignored.
RaceOpen_always(race) == race # "none"

RaceOpen(race) == race = "pending"

\* setTimeout(..., JOB_LIMIT_MS) in runJob line 358: the timer is armed and
\* nothing clears it.
SetTimeout_never == "none"

SetTimeout == "pending"

\* jobs.set(id, rec), with the history of the statuses written for the job
SetJob(J, id, rec) == [J EXCEPT ![id] = rec]
Wrote(q, status) == [q EXCEPT !.hist = Append(@, status)]

\* createSlideshow has settled (after its finally block ran): hand the outcome
\* to the caller.  POST /generate answers 200 or 500 (lines 335-338); runJob
\* records done or error unless the race is already over (lines 361-363).
SettleReq(q, ok) ==
  IF q.kind = "generate" THEN [q EXCEPT !.http = IF ok THEN 200 ELSE 500]
  ELSE IF RaceOpen(q.race)
       THEN Wrote([q EXCEPT !.race = "settled"], IF ok THEN "done" ELSE "error")
       ELSE q

SettleJobs_lost(q, ok) ==
  IF q.kind = "jobs" /\ RaceOpen(q.race) /\ ok
  THEN SetJob(jobs, q.id, JobRec("done", "", q.id))
  ELSE jobs

SettleJobs(q, ok) ==
  IF q.kind = "jobs" /\ RaceOpen(q.race)
  THEN SetJob(jobs, q.id, IF ok THEN JobRec("done", "", q.id) ELSE JobRec("error", q.err, 0))
  ELSE jobs

\* slots are taken in order (they are only names of requests)
SlotFree(r) == req[r].kind = "free" /\ (IF r = 1 THEN TRUE ELSE req[r - 1].kind # "free")

\* The synchronous start of createSlideshow(images, outputPath, ...), lines
\* 203-213: make the slide directory and begin preparing image 0.
StartSlideshow(q, n, duration, loopCount, id, tmp) ==
  [q EXCEPT !.n = n, !.duration = duration, !.loopCount = loopCount,
            !.id = id, !.tmpDir = tmp, !.cs = "prep", !.i = 0]

\* --------------------------------------------------------- POST /generate
\* line 325: !Array.isArray(imageUrls) || imageUrls.length === 0
BadImageUrls_arrayonly(list) == ~list.array

BadImageUrls(list) == ~list.array \/ Len(list.items) = 0

PostGenerate(r, list, duration, loopCount) ==
  /\ SlotFree(r)
  /\ IF BadImageUrls(list)
     THEN /\ req' = [req EXCEPT ![r] = [IdleReq EXCEPT !.kind = "generate", !.http = 400]]
          /\ UNCHANGED fs
     ELSE LET id == uuidv4(r, 1)
              tmp == uuidv4(r, 2)
          IN  /\ fs' = [fs EXCEPT ![StillsDir(tmp)] = "dir"]
              /\ req' = [req EXCEPT ![r] =
                           StartSlideshow([IdleReq EXCEPT !.kind = "generate"],
                                          Len(list.items),
                                          Coalesce(duration, DEFAULT_DURATION),
                                          Coalesce(loopCount, DEFAULT_LOOP_COUNT),
                                          id, tmp)]
  /\ UNCHANGED <<jobs, resp, boots, resolveVars, pureVars, creditVars>>

\* ------------------------------------------------- POST /jobs and runJob
\* line 371: !cleaned.length
NoneLeft_never(cleaned) == FALSE

NoneLeft(cleaned) == Len(cleaned) = 0

\* The handler runs runJob synchronously up to its await: the record is set
\* to queued, then to running, createSlideshow starts and the timer is armed.
\* The answer carries count: cleaned.length.
PostJobs(r, list, duration, loopCount) ==
  /\ SlotFree(r)
  /\ LET cleaned == cleanEbayImages(list)
     IN  IF NoneLeft(cleaned)
         THEN /\ req' = [req EXCEPT ![r] = [IdleReq EXCEPT !.kind = "jobs", !.http = 400]]
              /\ UNCHANGED <<fs, jobs>>
         ELSE LET jobId == uuidv4(r, 1)
                  tmp == uuidv4(r, 2)
                  q0 == Wrote(Wrote([IdleReq EXCEPT !.kind = "jobs"], "queued"), "running")
                  q1 == StartSlideshow(q0, Len(cleaned),
                                       Coalesce(duration, DEFAULT_DURATION),
                                       Coalesce(loopCount, DEFAULT_LOOP_COUNT),
                                       jobId, tmp)
              IN  /\ jobs' = SetJob(SetJob(jobs, jobId, JobRec("queued", "", 0)),
                                    jobId, JobRec("running", "", 0))
                  /\ fs' = [fs EXCEPT ![StillsDir(tmp)] = "dir"]
                  /\ req' = [req EXCEPT ![r] =
                               [q1 EXCEPT !.race = "pending", !.timer = SetTimeout,
                                          !.http = 202, !.count = Len(cleaned)]]
  /\ UNCHANGED <<resp, boots, resolveVars, pureVars, creditVars>>

\* -------------------------------------------------------- createSlideshow
InProgress(q) == q.cs \in {"prep", "render", "loop"}

\* line 213-214: a prepared slide is pushed, a failed one is skipped
PushSlide_always(slideFiles, i, ok) == Append(slideFiles, i)

PushSlide(slideFiles, i, ok) == IF ok THEN Append(slideFiles, i) ELSE slideFiles

\* line 216
AllFailed_never(slideFiles) == FALSE

AllFailed(slideFiles) == Len(slideFiles) = 0

\* the finally block, line 234
RmStills(F, tmp) == [F EXCEPT ![StillsDir(tmp)] = "absent"]

\* createSlideshow is left: its parameters and locals are gone, and the concat
\* list went with the slide directory
Return(q) ==
  [q EXCEPT !.n = 0, !.duration = NoVal, !.loopCount = NoVal, !.i = 0,
            !.slideFiles = <<>>, !.manifest = <<>>, !.loopList = 0, !.okImgs = <<>>]

\* createSlideshow rejects with msg: the finally block runs, then the caller
\* gets the rejection
Reject(r, q, msg, F) ==
  LET q1 == [Return(q) EXCEPT !.cs = "rejected", !.err = msg]
  IN  /\ fs' = RmStills(F, q.tmpDir)
      /\ req' = [req EXCEPT ![r] = SettleReq(q1, FALSE)]
      /\ jobs' = SettleJobs(q1, FALSE)

\* createSlideshow returns: unlink the single-pass file (line 232), the
\* finally block, then the caller continues
Resolve(r, q, F) ==
  LET q1 == [Return(q) EXCEPT !.cs = "resolved"]
  IN  /\ fs' = RmStills([F EXCEPT ![OnceFile(q.id)] = "absent"], q.tmpDir)
      /\ req' = [req EXCEPT ![r] = SettleReq(q1, TRUE)]
      /\ jobs' = SettleJobs(q1, TRUE)

\* prepareSlideJpg(images[i], slidePath) settles (ok: the slide was written;
\* otherwise it threw).  After the last image: fail when no slide exists, else
\* write the concat list and start the encoder (lines 211-226).
PrepSettle(r, ok) ==
  LET q == req[r]
      sf == PushSlide(q.slideFiles, q.i, ok)
      oks == IF ok THEN Append(q.okImgs, q.i) ELSE q.okImgs
      qs == [q EXCEPT !.slideFiles = sf, !.i = q.i + 1, !.okImgs = oks,
                      !.survivors = IF q.i + 1 < q.n THEN ""
                                    ELSE IF oks = <<>> THEN "none" ELSE "some"]
  IN  /\ q.cs = "prep"
      /\ IF q.i + 1 < q.n
         THEN /\ req' = [req EXCEPT ![r] = qs]
              /\ UNCHANGED <<fs, jobs>>
         ELSE IF AllFailed(sf)
         THEN Reject(r, qs, "All images failed to load", fs)
         ELSE LET per == PerSlide(q.duration)
                  durations == [k \in 1..Len(sf) |-> per]
              IN  /\ req' = [req EXCEPT ![r] =
                               [qs EXCEPT !.manifest = writeConcatList(sf, durations),
                                          !.listWrites = @ + 1,
                                          !.renderCalls = @ + 1, !.cs = "render"]]
                  /\ fs' = [fs EXCEPT ![OnceFile(q.id)] = "partial"]
                  /\ UNCHANGED jobs
      /\ UNCHANGED <<resp, boots, resolveVars, pureVars, creditVars>>

\* renderFromSlides: ffmpeg emits 'end'.  loopMp4Copy (lines 173-197) copies
\* the file when times is 1, else writes the loop list in a fresh directory
\* and starts the stream-copy encoder run.
RenderEnd(r) ==
  LET q == req[r]
      times == Loops(q.loopCount)
      F1 == [fs EXCEPT ![OnceFile(q.id)] = "complete"]
  IN  /\ q.cs = "render"
      /\ IF times = 1
         THEN Resolve(r, q, [F1 EXCEPT ![VideoFile(q.id)] = "complete"])
         ELSE LET dir == uuidv4(r, 3)
              IN  /\ fs' = [F1 EXCEPT ![LoopDir(dir)] = "dir",
                                      ![VideoFile(q.id)] = "partial"]
                  /\ req' = [req EXCEPT ![r] =
                               [q EXCEPT !.loopDir = dir, !.loopList = times,
                                         !.loopCalls = @ + 1, !.cs = "loop"]]
                  /\ UNCHANGED jobs
      /\ UNCHANGED <<resp, boots, resolveVars, pureVars, creditVars>>

\* renderFromSlides: ffmpeg emits 'error'
RenderError(r) ==
  LET q == req[r]
  IN  /\ q.cs = "render"
      /\ Reject(r, q, "ffmpeg error", fs)
      /\ UNCHANGED <<resp, boots, resolveVars, pureVars, creditVars>>

\* loopMp4Copy: the stream-copy run emits 'end'; the loop directory is removed
\* (line 199) and createSlideshow returns
LoopEnd(r) ==
  LET q == req[r]
  IN  /\ q.cs = "loop"
      /\ Resolve(r, q, [fs EXCEPT ![VideoFile(q.id)] = "complete",
                                  ![LoopDir(q.loopDir)] = "absent"])
      /\ UNCHANGED <<resp, boots, resolveVars, pureVars, creditVars>>

\* loopMp4Copy: the stream-copy run emits 'error'; line 199 is not reached
LoopError(r) ==
  LET q == req[r]
  IN  /\ q.cs = "loop"
      /\ Reject(r, q, "ffmpeg error", fs)
      /\ UNCHANGED <<resp, boots, resolveVars, pureVars, creditVars>>

\* the JOB_LIMIT_MS timer of runJob fires (line 358): the race rejects with
\* TIME_LIMIT unless it is already over; createSlideshow is not touched
TimerFire(r) ==
  LET q == req[r]
      qt == [q EXCEPT !.timer = "fired"]
  IN  /\ q.timer = "pending"
      /\ IF RaceOpen(q.race)
         THEN /\ req' = [req EXCEPT ![r] = Wrote([qt EXCEPT !.race = "settled"], "error")]
              /\ jobs' = SetJob(jobs, q.id, JobRec("error", "TIME_LIMIT", 0))
         ELSE /\ req' = [req EXCEPT ![r] = qt]
              /\ UNCHANGED jobs
      /\ UNCHANGED <<fs, resp, boots, resolveVars, pureVars, creditVars>>

\* ------------------------------------------------------------- GET /jobs/:id
\* lines 386-406; rec is jobs.get(id), exists is fs.existsSync(videoPath)
Answer(code, ok, status, url, error) ==
  [code |-> code, ok |-> ok, status |-> status, url |-> url, error |-> error]

GetJobResponse_404(id, rec, exists) ==
  IF rec.status # "none" THEN Answer(200, TRUE, rec.status, rec.url, rec.error)
  ELSE IF exists THEN Answer(200, TRUE, "done", id, "")
  ELSE Answer(404, FALSE, "", 0, "not found")

GetJobResponse(id, rec, exists) ==
  IF rec.status # "none" THEN Answer(200, TRUE, rec.status, rec.url, rec.error)
  ELSE IF exists THEN Answer(200, TRUE, "done", id, "")
  ELSE Answer(200, TRUE, "queued", 0, "")

ExistsSync(p) == fs[p] # "absent"

\* what GET /jobs/<id> answers in the current state
Poll(id) == GetJobResponse(id, jobs[id], ExistsSync(VideoFile(id)))

\* the response, with what the handler found: the id asked for, whether the
\* Map had a record, whether the video file existed
GetJob(id) ==
  /\ resp' = [code |-> Poll(id).code, ok |-> Poll(id).ok, status |-> Poll(id).status,
              url |-> Poll(id).url, error |-> Poll(id).error,
              id |-> id, hadRecord |-> jobs[id].status # "none",
              fileExisted |-> ExistsSync(VideoFile(id))]
  /\ UNCHANGED <<jobs, fs, req, boots, resolveVars, pureVars, creditVars>>

\* ---------------------------------------------------------- process restart
\* The process is restarted: the jobs Map, the timers and every handler in
\* flight are gone (with their encoder children); the files stay.
Restart ==
  /\ boots < MaxBoots
  /\ boots' = boots + 1
  /\ jobs' = [id \in Uuid |-> NoJob]
  /\ req' = [r \in Req |->
               [Return(req[r]) EXCEPT !.cs = IF InProgress(req[r]) THEN "killed" ELSE @,
                              !.timer = IF @ = "pending" THEN "none" ELSE @,
                              !.race = IF @ = "pending" THEN "none" ELSE @]]
  /\ UNCHANGED <<fs, resp, resolveVars, pureVars, creditVars>>

\* ------------------------------------------------------------ specifications
Submit ==
  \E r \in Req :
    /\ SlotFree(r)
    /\ \E d \in Durations : \E l \in LoopCounts :
         \/ \E list \in GenerateInputs : PostGenerate(r, list, d, l)
         \/ \E list \in JobsInputs : PostJobs(r, list, d, l)

\* the requests of the restart scenarios: one image or none, default duration
OneImage == {MkList(TRUE, <<>>), MkList(TRUE, <<GalleryUrl(1)>>)}
SubmitOne ==
  \E r \in Req :
    /\ SlotFree(r)
    /\ \E l \in LoopCounts : \E list \in OneImage :
         \/ PostGenerate(r, list, NoVal, l)
         \/ PostJobs(r, list, NoVal, l)

\* the requests of the job scenarios: POST /jobs only, default duration
SubmitJobs ==
  \E r \in Req :
    /\ SlotFree(r)
    /\ \E l \in LoopCounts : \E list \in JobsInputs : PostJobs(r, list, NoVal, l)

Progress ==
  \E r \in Req :
    \/ \E ok \in BOOLEAN : PrepSettle(r, ok)
    \/ RenderEnd(r)
    \/ RenderError(r)
    \/ LoopEnd(r)
    \/ LoopError(r)

Timers == \E r \in Req : TimerFire(r)

Polls == \E id \in Uuid : GetJob(id)

Next == Submit \/ Progress \/ Timers

Spec == Init /\ [][Next]_vars

\* Jobs alone.  Timers fire: the event loop is never blocked for good; nothing
\* is assumed of the fetches and of the encoder, which may never end.
JobsNext == SubmitJobs \/ Progress \/ Timers

JobsSpec == Init /\ [][JobsNext]_vars

FairJobsSpec == JobsSpec /\ \A r \in Req : WF_vars(TimerFire(r))

RestartNext == SubmitOne \/ Progress \/ Timers \/ Polls \/ Restart

RestartSpec == Init /\ [][RestartNext]_vars

FairRestartSpec == RestartSpec /\ \A r \in Req : WF_vars(TimerFire(r))

\* resolveImageBuffer alone, on every sample URL
ResolveSpec == ResolveInit /\ [][ResolveNext]_vars

\* resolveImageBuffer against servers whose first answers are fixed
LadderSpec == LadderInit /\ [][LadderNext]_vars

\* ---------------------------------------------------- helpers called alone
MaxLen == 3        \* length of the short imageUrls lists
MaxExtra == 2      \* how far the long imageUrls lists exceed the cap

\* Elements of imageUrls: gallery URLs of stem 1 that differ in size token,
\* extension and query, one with an extension the patterns do not take in two
\* sizes, a path in upper case under /dd/s/, a second stem, and elements the
\* loop skips (another host, an eBay path of another shape, no URL, no string).
BigUrl(stem) == MkUrl(TRUE, TRUE, "images", stem, "s-l", 1600, "jpg", FALSE, TRUE)
CleanPool ==
  {GalleryUrl(1), BigUrl(1), SecondSpelling, GalleryUrl(2),
   MkUrl(TRUE, TRUE, "images", 1, "s-l", 64, "gif", FALSE, FALSE),
   MkUrl(TRUE, TRUE, "images", 1, "s-l", 1600, "gif", FALSE, TRUE),
   MkUrl(TRUE, TRUE, "legacy", 1, "$_", 57, "jpg", TRUE, FALSE),
   MkUrl(TRUE, TRUE, "other", 1, "s-l", 64, "jpg", FALSE, FALSE),
   MkUrl(FALSE, FALSE, "other", 1, "other", 0, "jpg", FALSE, FALSE),
   OtherHost, NonString}

ShortLists == UNION {[1..n -> CleanPool] : n \in 0..MaxLen}

\* m distinct gallery images; the same with a second spelling after each; the
\* same after two elements the loop skips
Doubled(m) == [k \in 1..(2 * m) |-> IF k % 2 = 1 THEN GalleryUrl((k + 1) \div 2)
                                                 ELSE BigUrl(k \div 2)]
LongLists ==
  UNION {{Gallery(m), Doubled(m), <<NonString, OtherHost>> \o Gallery(m)} :
           m \in (IMAGE_CAP - 1)..(IMAGE_CAP + MaxExtra)}

CleanInputs ==
  {MkList(FALSE, <<>>)} \cup {MkList(TRUE, l) : l \in ShortLists \cup LongLists}

CleanInit ==
  /\ jobs = [id \in Uuid |-> NoJob]
  /\ fs = [p \in Paths |-> "absent"]
  /\ req = [r \in Req |-> IdleReq]
  /\ resp = NoResp
  /\ boots = 0
  /\ rUrl = Null
  /\ rWorld = <<>>
  /\ rIdx = 0
  /\ rTried = <<>>
  /\ rLast = Null
  /\ rGood = 0
  /\ rResult = Ended("idle", Null, 0)
  /\ pArg \in CleanInputs
  /\ pRes = <<>>
  /\ db = IdleDb
  /\ pool = [k \in Conns |-> IdleConn]
  /\ call = [c \in Calls |-> IdleCall]

\* const cleaned = cleanEbayImages(imageUrls)
CallClean ==
  /\ pRes = <<>>
  /\ pRes' = <<cleanEbayImages(pArg)>>
  /\ UNCHANGED <<pArg, jobVars, resolveVars, creditVars>>

CleanSpec == CleanInit /\ [][CallClean]_vars

\* ------------------------------------------------ requests with long lists
\* One request whose imageUrls has about IMAGE_CAP distinct gallery images,
\* all of which can be prepared.
CapInputs ==
  {MkList(TRUE, Gallery(m)) : m \in (IMAGE_CAP - 1)..(IMAGE_CAP + MaxExtra)}

CapNext ==
  \/ \E list \in CapInputs : \E l \in LoopCounts : PostGenerate(1, list, NoVal, l)
  \/ \E list \in CapInputs : \E l \in LoopCounts : PostJobs(1, list, NoVal, l)
  \/ PrepSettle(1, TRUE)
  \/ RenderEnd(1)
  \/ RenderError(1)
  \/ LoopEnd(1)
  \/ LoopError(1)
  \/ TimerFire(1)

CapSpec == Init /\ [][CapNext]_vars

\* normalizeEbayUrl called on a URL and then on its own result
NormalizeInputs ==
  {MkUrl(va, eb, sh, 1, tk, sz, ex, up, qy) :
     va \in BOOLEAN, eb \in BOOLEAN, sh \in {"images", "legacy", "other"},
     tk \in SizeTokens \cup {"other"}, sz \in {64, 1600},
     ex \in {"jpg", "webp", "gif"}, up \in BOOLEAN, qy \in BOOLEAN}

NormalizeInit ==
  /\ jobs = [id \in Uuid |-> NoJob]
  /\ fs = [p \in Paths |-> "absent"]
  /\ req = [r \in Req |-> IdleReq]
  /\ resp = NoResp
  /\ boots = 0
  /\ rUrl = Null
  /\ rWorld = <<>>
  /\ rIdx = 0
  /\ rTried = <<>>
  /\ rLast = Null
  /\ rGood = 0
  /\ rResult = Ended("idle", Null, 0)
  /\ pArg \in NormalizeInputs
  /\ pRes = <<>>
  /\ db = IdleDb
  /\ pool = [k \in Conns |-> IdleConn]
  /\ call = [c \in Calls |-> IdleCall]

CallNormalize ==
  LET u == IF pRes = <<>> THEN pArg ELSE pRes[Len(pRes)]
  IN  /\ Len(pRes) < 2
      /\ u # Null
      /\ pRes' = Append(pRes, normalizeEbayUrl(u))
      /\ UNCHANGED <<pArg, jobVars, resolveVars, creditVars>>

NormalizeSpec == NormalizeInit /\ [][CallNormalize]_vars

\* writeConcatList called on up to MaxSlides slide files (named by numbers)
\* and as many durations
MaxSlides == 3

ConcatInputs ==
  UNION {[slideFiles : [1..k -> 0..2], durations : [1..k -> {MIN_DURATION, 1000, 1500}]] :
           k \in 0..MaxSlides}

ConcatInit ==
  /\ jobs = [id \in Uuid |-> NoJob]
  /\ fs = [p \in Paths |-> "absent"]
  /\ req = [r \in Req |-> IdleReq]
  /\ resp = NoResp
  /\ boots = 0
  /\ rUrl = Null
  /\ rWorld = <<>>
  /\ rIdx = 0
  /\ rTried = <<>>
  /\ rLast = Null
  /\ rGood = 0
  /\ rResult = Ended("idle", Null, 0)
  /\ pArg \in ConcatInputs
  /\ pRes = <<>>
  /\ db = IdleDb
  /\ pool = [k \in Conns |-> IdleConn]
  /\ call = [c \in Calls |-> IdleCall]

CallWriteConcatList ==
  /\ pRes = <<>>
  /\ pRes' = <<writeConcatList(pArg.slideFiles, pArg.durations)>>
  /\ UNCHANGED <<pArg, jobVars, resolveVars, creditVars>>

ConcatSpec == ConcatInit /\ [][CallWriteConcatList]_vars

\* ------------------------------------------------ one request, any loopCount
\* One request at a time, with a loopCount that is missing, a number from 1
\* to MaxLoops, or no number at all.
LoopInputs == LoopCounts \cup {NaNVal}

LoopNext ==
  \/ \E list \in GenerateInputs : \E d \in Durations : \E l \in LoopInputs :
       PostGenerate(1, list, d, l)
  \/ \E list \in JobsInputs : \E d \in Durations : \E l \in LoopInputs :
       PostJobs(1, list, d, l)
  \/ \E ok \in BOOLEAN : PrepSettle(1, ok)
  \/ RenderEnd(1)
  \/ RenderError(1)
  \/ LoopEnd(1)
  \/ LoopError(1)
  \/ TimerFire(1)

LoopSpec == Init /\ [][LoopNext]_vars

\* ------------------------------------------- the two routes on given bodies
\* Each request carries the imageUrls fixed for it beforehand: a body without
\* an array, an empty array, one gallery image, the same image in two
\* spellings, only a URL of another host, only an element that is no string,
\* more gallery images than the cap.  Every image can be prepared.
RouteInputs ==
  {MkList(FALSE, <<>>), MkList(TRUE, <<>>), MkList(TRUE, <<GalleryUrl(1)>>),
   MkList(TRUE, <<GalleryUrl(1), SecondSpelling>>), MkList(TRUE, <<OtherHost>>),
   MkList(TRUE, <<NonString>>), MkList(TRUE, Gallery(IMAGE_CAP + MaxExtra))}

RouteInit ==
  /\ jobs = [id \in Uuid |-> NoJob]
  /\ fs = [p \in Paths |-> "absent"]
  /\ req = [r \in Req |-> IdleReq]
  /\ resp = NoResp
  /\ boots = 0
  /\ rUrl = Null
  /\ rWorld = <<>>
  /\ rIdx = 0
  /\ rTried = <<>>
  /\ rLast = Null
  /\ rGood = 0
  /\ rResult = Ended("idle", Null, 0)
  /\ pArg \in [Req -> RouteInputs]
  /\ pRes = <<>>
  /\ db = IdleDb
  /\ pool = [k \in Conns |-> IdleConn]
  /\ call = [c \in Calls |-> IdleCall]

RouteNext ==
  \/ \E r \in Req : PostGenerate(r, pArg[r], NoVal, NoVal)
  \/ \E r \in Req : PostJobs(r, pArg[r], NoVal, NoVal)
  \/ \E r \in Req : PrepSettle(r, TRUE)
  \/ \E r \in Req : RenderEnd(r)
  \/ \E r \in Req : RenderError(r)
  \/ \E r \in Req : TimerFire(r)

RouteSpec == RouteInit /\ [][RouteNext]_vars

\* ------------------------------------------------ credits: the transactions
\* PostgreSQL at READ COMMITTED: a statement sees the committed row, or the
\* version its own transaction wrote; a row written or selected FOR UPDATE is
\* locked until the transaction ends, and a statement that needs the lock
\* waits for it.
Visible(k) == IF pool[k].wrote THEN pool[k].row ELSE db.row
LockFree(k) == \A k2 \in Conns \ {k} : ~pool[k2].lock

\* the transaction block ends (COMMIT, ROLLBACK, or a COMMIT that failed)
EndTxn(conn) ==
  [conn EXCEPT !.txn = "idle", !.wrote = FALSE, !.row = NoRow, !.ins = <<>>,
               !.lock = FALSE]

\* a statement fails: the server drops the transaction's writes and locks,
\* and the block stays open, refusing statements, until ROLLBACK
AbortTxn(conn) ==
  [EndTxn(conn) EXCEPT !.txn = IF conn.txn = "idle" THEN "idle" ELSE "aborted"]

\* the connection breaks: the server ends the transaction
CloseConn(conn) == [EndTxn(conn) EXCEPT !.txn = "closed"]

\* c.release(): the client goes back to the pool, which replaces a broken one
Release(conn) == IF conn.txn = "closed" THEN IdleConn ELSE [conn EXCEPT !.busy = FALSE]

\* A query on connection k succeeds (ok) or fails.  It must fail on a broken
\* connection and, ROLLBACK apart, in an aborted transaction; otherwise it
\* may fail while the behaviour has failures left.
MustFail(k, isRollback) ==
  pool[k].txn = "closed" \/ (pool[k].txn = "aborted" /\ ~isRollback)

QueryRuns(k, ok, isRollback) ==
  IF MustFail(k, isRollback) THEN ~ok ELSE ok \/ db.fails < MaxFails

Counted(d, k, ok, isRollback) ==
  IF ~ok /\ ~MustFail(k, isRollback) THEN [d EXCEPT !.fails = @ + 1] ELSE d

\* what the two functions hand back
Out(ok, remaining) == [t |-> "ok", ok |-> ok, remaining |-> remaining]
Threw == [t |-> "threw", ok |-> FALSE, remaining |-> 0]
Returned == [t |-> "returned", ok |-> FALSE, remaining |-> 0]

\* consumeCredits line 26: select ... for update
SelectLocks_plain == FALSE

SelectLocks == TRUE

\* creditsGuard lines 26-31, after consumeCredits has settled
GuardOutcome_open(out) ==
  IF out.t = "threw" THEN "next"
  ELSE IF ~out.ok THEN "402"
  ELSE "next"

GuardOutcome(out) ==
  IF out.t = "threw" THEN "500"
  ELSE IF ~out.ok THEN "402"
  ELSE "next"

\* a call settles: its locals are gone
Settle(cl, out) ==
  [cl EXCEPT !.pc = "done", !.out = out, !.k = 0, !.seen = NoRow,
             !.guard = IF cl.op = "consume" THEN GuardOutcome(out) ELSE "none"]

CallFree(c) == call[c].op = "none" /\ (IF c = 1 THEN TRUE ELSE call[c - 1].op # "none")

\* creditsGuard calls consumeCredits(licenseKey, cost, null) (the body has no
\* jobId), which runs up to await pool.connect()
StartConsume(c, amount) ==
  /\ CallFree(c)
  /\ call' = [call EXCEPT ![c] = [IdleCall EXCEPT !.op = "consume", !.pc = "connect",
                                              !.amount = amount, !.reason = "consume"]]
  /\ UNCHANGED <<db, pool, jobVars, resolveVars, pureVars>>

\* the webhook calls addCredits(licenseKey, delta, reason, ref)
StartAdd(c, delta, ref) ==
  /\ CallFree(c)
  /\ call' = [call EXCEPT ![c] = [IdleCall EXCEPT !.op = "add", !.pc = "connect",
                                              !.amount = delta, !.reason = "order_created",
                                              !.ref = ref]]
  /\ UNCHANGED <<db, pool, jobVars, resolveVars, pureVars>>

\* pool.connect() hands out a connection that is not checked out (of two
\* in the same state, the one named first)
Connect(c) ==
  /\ call[c].pc = "connect"
  /\ \E k \in Conns :
       /\ ~pool[k].busy
       /\ \A k2 \in 1..(k - 1) : pool[k2] # pool[k]
       /\ pool' = [pool EXCEPT ![k].busy = TRUE]
       /\ call' = [call EXCEPT ![c].k = k, ![c].pc = "begin"]
  /\ UNCHANGED <<db, jobVars, resolveVars, pureVars>>

\* A query of call c has failed.  consumeCredits goes to its catch block
\* (line 39); addCredits has none: finally releases the connection and the
\* call rejects.
QueryFailed(c, conn) ==
  IF call[c].op = "consume"
  THEN /\ pool' = [pool EXCEPT ![call[c].k] = conn]
       /\ call' = [call EXCEPT ![c].pc = "catch"]
  ELSE /\ pool' = [pool EXCEPT ![call[c].k] = Release(conn)]
       /\ call' = [call EXCEPT ![c] = Settle(call[c], Threw)]

\* await c.query("BEGIN")
Begin(c, ok) ==
  LET k == call[c].k
  IN  /\ call[c].pc = "begin"
      /\ QueryRuns(k, ok, FALSE)
      /\ db' = Counted(db, k, ok, FALSE)
      /\ IF ok
         THEN /\ pool' = [pool EXCEPT ![k].txn = "open"]
              /\ call' = [call EXCEPT ![c].pc = IF call[c].op = "consume"
                                               THEN "select" ELSE "upsert"]
         ELSE QueryFailed(c, AbortTxn(pool[k]))
      /\ UNCHANGED <<jobVars, resolveVars, pureVars>>

\* consumeCredits lines 25-32: the select, then the two checks on its rows
Select(c, ok) ==
  LET k == call[c].k
      row == Visible(k)
      locks == row.exists /\ SelectLocks
  IN  /\ call[c].pc = "select"
      /\ QueryRuns(k, ok, FALSE)
      /\ (ok /\ locks) => LockFree(k)
      /\ db' = Counted(db, k, ok, FALSE)
      /\ IF ok
         THEN /\ pool' = [pool EXCEPT ![k].lock = locks]
              /\ call' = [call EXCEPT ![c].seen = row,
                                      ![c].pc = IF ~row.exists THEN "rollback"
                                                ELSE IF row.total - row.used < call[c].amount
                                                THEN "rollback"
                                                ELSE "update"]
         ELSE QueryFailed(c, AbortTxn(pool[k]))
      /\ UNCHANGED <<jobVars, resolveVars, pureVars>>

\* consumeCredits line 33: credits_used = credits_used + amount
Update(c, ok) ==
  LET k == call[c].k
      row == Visible(k)
  IN  /\ call[c].pc = "update"
      /\ QueryRuns(k, ok, FALSE)
      /\ ok => LockFree(k)
      /\ db' = Counted(db, k, ok, FALSE)
      /\ IF ok
         THEN /\ pool' = [pool EXCEPT ![k].lock = TRUE, ![k].wrote = TRUE,
                                      ![k].row = [row EXCEPT !.used = @ + call[c].amount]]
              /\ call' = [call EXCEPT ![c].pc = "insert"]
         ELSE QueryFailed(c, AbortTxn(pool[k]))
      /\ UNCHANGED <<jobVars, resolveVars, pureVars>>

\* addCredits lines 8-14: insert ... on conflict do update, with greatest($2,0)
Upsert(c, ok) ==
  LET k == call[c].k
      row == Visible(k)
      inc == Max2(call[c].amount, 0)
  IN  /\ call[c].pc = "upsert"
      /\ QueryRuns(k, ok, FALSE)
      /\ ok => LockFree(k)
      /\ db' = Counted(db, k, ok, FALSE)
      /\ IF ok
         THEN /\ pool' = [pool EXCEPT ![k].lock = TRUE, ![k].wrote = TRUE,
                                      ![k].row = IF row.exists
                                                 THEN [row EXCEPT !.total = @ + inc]
                                                 ELSE Row(inc, 0)]
              /\ call' = [call EXCEPT ![c].pc = "insert"]
         ELSE QueryFailed(c, AbortTxn(pool[k]))
      /\ UNCHANGED <<jobVars, resolveVars, pureVars>>

\* insert into credit_txns: lines 15-16 (delta) and 35-36 (-amount)
Insert(c, ok) ==
  LET k == call[c].k
      delta == IF call[c].op = "consume" THEN 0 - call[c].amount ELSE call[c].amount
  IN  /\ call[c].pc = "insert"
      /\ QueryRuns(k, ok, FALSE)
      /\ db' = Counted(db, k, ok, FALSE)
      /\ IF ok
         THEN /\ pool' = [pool EXCEPT ![k].ins =
                                        Append(@, TxnRow(delta, call[c].reason, call[c].ref))]
              /\ call' = [call EXCEPT ![c].pc = "commit"]
         ELSE QueryFailed(c, AbortTxn(pool[k]))
      /\ UNCHANGED <<jobVars, resolveVars, pureVars>>

\* await c.query("COMMIT"), then the return and finally { c.release() }; a
\* COMMIT that fails has rolled the transaction back
Commit(c, ok) ==
  LET k == call[c].k
      d == Counted(db, k, ok, FALSE)
  IN  /\ call[c].pc = "commit"
      /\ QueryRuns(k, ok, FALSE)
      /\ IF ok
         THEN /\ db' = [d EXCEPT !.row = Visible(k), !.txns = @ \o pool[k].ins]
              /\ pool' = [pool EXCEPT ![k] = Release(EndTxn(pool[k]))]
              /\ call' = [call EXCEPT ![c] =
                            Settle(call[c],
                                   IF call[c].op = "consume"
                                   THEN Out(TRUE, call[c].seen.total - call[c].seen.used
                                                    - call[c].amount)
                                   ELSE Returned)]
         ELSE /\ db' = d
              /\ QueryFailed(c, EndTxn(pool[k]))
      /\ UNCHANGED <<jobVars, resolveVars, pureVars>>

\* consumeCredits lines 29 and 32: ROLLBACK, then return ok:false.  A
\* ROLLBACK fails only when the connection breaks.
RollbackReturn(c, ok) ==
  LET k == call[c].k
  IN  /\ call[c].pc = "rollback"
      /\ QueryRuns(k, ok, TRUE)
      /\ db' = Counted(db, k, ok, TRUE)
      /\ IF ok
         THEN /\ pool' = [pool EXCEPT ![k] = Release(EndTxn(pool[k]))]
              /\ call' = [call EXCEPT ![c] =
                            Settle(call[c],
                                   Out(FALSE, IF call[c].seen.exists
                                              THEN call[c].seen.total - call[c].seen.used
                                              ELSE 0))]
         ELSE QueryFailed(c, CloseConn(pool[k]))
      /\ UNCHANGED <<jobVars, resolveVars, pureVars>>

\* consumeCredits lines 39-42: try ROLLBACK (its failure is swallowed), throw
\* e, release
CatchRollback(c, ok) ==
  LET k == call[c].k
  IN  /\ call[c].pc = "catch"
      /\ QueryRuns(k, ok, TRUE)
      /\ db' = Counted(db, k, ok, TRUE)
      /\ pool' = [pool EXCEPT ![k] = Release(IF ok THEN EndTxn(pool[k])
                                                ELSE CloseConn(pool[k]))]
      /\ call' = [call EXCEPT ![c] = Settle(call[c], Threw)]
      /\ UNCHANGED <<jobVars, resolveVars, pureVars>>

\* The licence's row before the calls: none, or credits_used <= credits_total
InitRows == {NoRow, Row(2, 1)}
Amounts == {1, 2}
Deltas == {1}
Refs == {0, 1}

CreditsInit ==
  /\ jobs = [id \in Uuid |-> NoJob]
  /\ fs = [p \in Paths |-> "absent"]
  /\ req = [r \in Req |-> IdleReq]
  /\ resp = NoResp
  /\ boots = 0
  /\ rUrl = Null
  /\ rWorld = <<>>
  /\ rIdx = 0
  /\ rTried = <<>>
  /\ rLast = Null
  /\ rGood = 0
  /\ rResult = Ended("idle", Null, 0)
  /\ pArg = Null
  /\ pRes = <<>>
  /\ db \in {[row |-> r0, txns |-> <<>>, row0 |-> r0, fails |-> 0] : r0 \in InitRows}
  /\ pool = [k \in Conns |-> IdleConn]
  /\ call = [c \in Calls |-> IdleCall]

CreditsNext ==
  \E c \in Calls :
    \/ \E a \in Amounts : StartConsume(c, a)
    \/ \E d \in Deltas : \E ref \in Refs : StartAdd(c, d, ref)
    \/ Connect(c)
    \/ \E ok \in BOOLEAN :
         \/ Begin(c, ok)
         \/ Select(c, ok)
         \/ Update(c, ok)
         \/ Upsert(c, ok)
         \/ Insert(c, ok)
         \/ Commit(c, ok)
         \/ RollbackReturn(c, ok)
         \/ CatchRollback(c, ok)

CreditsSpec == CreditsInit /\ [][CreditsNext]_vars

\* ------------------------------------------------------ the Lemon webhook
\* routes/generate.js lines 53-151.  Byte strings and texts are terms: the
\* HMAC-SHA256 of a body under a key (32 bytes), the hex text of bytes (two
\* characters per byte), the bytes of a text (one per character).
Hmac(key, body) == [t |-> "hmac", key |-> key, body |-> body]
HexText(bytes) == [t |-> "hex", of |-> bytes]
TextBytes(text) == [t |-> "text", of |-> text]
NoText == [t |-> "empty"]
NoBytes == [t |-> "none"]

RECURSIVE ByteLen(_)
ByteLen(b) ==
  IF b.t = "hmac" THEN 32
  ELSE IF b.t = "text" THEN (IF b.of.t = "hex" THEN 2 * ByteLen(b.of) ELSE 0)
  ELSE 0

\* Buffer.from(text): the bytes of its characters
BufferFromText(text) == IF text = NoText THEN NoBytes ELSE TextBytes(text)

\* Buffer.from(text, "hex"): the bytes the hex digits spell
BufferFromHex(text) == IF text.t = "hex" THEN text.of ELSE NoBytes

\* crypto.timingSafeEqual(a, b): throws when the lengths differ
timingSafeEqual(a, b) ==
  IF ByteLen(a) # ByteLen(b) THEN "throws" ELSE IF a = b THEN "true" ELSE "false"

Answered(status, text, passed, added) ==
  [status |-> status, text |-> text, passed |-> passed, added |-> added]

\* lines 54-66: the signature check, with the digest taken as hex text and
\* compared, as a text buffer, with the hex-decoded header
SignatureCheck(rq) ==
  IF ~rq.secretSet THEN "missing"
  ELSE LET digest == HexText(Hmac("LEMON_WEBHOOK_SECRET", rq.body))
       IN  timingSafeEqual(BufferFromText(digest), BufferFromHex(rq.sig))

\* lines 68-146: order_created of the free plan; a paid order or renewal of a
\* known product, for which addCredits is called when the user is found; any
\* other event
ProcessEvent(rq) ==
  IF rq.event = "free" THEN Answered(200, "Free plan processed", TRUE, FALSE)
  ELSE IF rq.event = "paid" THEN Answered(200, "Credits added", TRUE, TRUE)
  ELSE IF rq.event = "paid, no user" THEN Answered(200, "Credits added", TRUE, FALSE)
  ELSE Answered(200, "Event ignored", TRUE, FALSE)

LemonWebhook(rq) ==
  LET check == SignatureCheck(rq)
  IN  IF check = "missing" THEN Answered(400, "Missing Lemon secret", FALSE, FALSE)
      ELSE IF check = "throws" THEN Answered(500, "Webhook error", FALSE, FALSE)
      ELSE IF check = "false" THEN Answered(400, "Bad signature", FALSE, FALSE)
      ELSE ProcessEvent(rq)

\* Requests: two bodies; as x-signature the hex HMAC of the body under the
\* secret, under another key, of another body, the hex text of either digest
\* text, or no header; four kinds of event.
Bodies == {1, 2}
Signatures(body) ==
  LET macs == {Hmac("LEMON_WEBHOOK_SECRET", body), Hmac("other key", body),
               Hmac("LEMON_WEBHOOK_SECRET", 3 - body)}
  IN  {HexText(m) : m \in macs} \cup {HexText(TextBytes(HexText(m))) : m \in macs}
        \cup {NoText}

HookInputs ==
  UNION {[body : {b}, sig : Signatures(b), event : {"free", "paid", "paid, no user", "other"},
          secretSet : BOOLEAN] : b \in Bodies}

HookInit ==
  /\ jobs = [id \in Uuid |-> NoJob]
  /\ fs = [p \in Paths |-> "absent"]
  /\ req = [r \in Req |-> IdleReq]
  /\ resp = NoResp
  /\ boots = 0
  /\ rUrl = Null
  /\ rWorld = <<>>
  /\ rIdx = 0
  /\ rTried = <<>>
  /\ rLast = Null
  /\ rGood = 0
  /\ rResult = Ended("idle", Null, 0)
  /\ pArg \in HookInputs
  /\ pRes = <<>>
  /\ db = IdleDb
  /\ pool = [k \in Conns |-> IdleConn]
  /\ call = [c \in Calls |-> IdleCall]

CallWebhook ==
  /\ pRes = <<>>
  /\ pRes' = <<LemonWebhook(pArg)>>
  /\ UNCHANGED <<pArg, jobVars, resolveVars, creditVars>>

HookSpec == HookInit /\ [][CallWebhook]_vars

\* ----------------------------- the /generate variant that skips failed fetches
\* src/unnamed/part_014 lines 12-72.  fetched[i + 1] says whether image i was
\* fetched and written to img<i>.jpg; a file is named by its index.
MaxFetched == 4    \* images of one request of this variant

RECURSIVE fetchLines(_, _)
fetchLines(fetched, duration) ==
  IF fetched = <<>> THEN <<>>
  ELSE LET n == Len(fetched)
           before == fetchLines(SubSeq(fetched, 1, n - 1), duration)
       IN  IF fetched[n]
           THEN before \o <<[t |-> "file", f |-> n - 1], [t |-> "duration", d |-> duration]>>
           ELSE before

\* lines 27-60: the lines of input.txt and the image files written; status 400
\* when nothing was fetched, 0 when the handler goes on to the encoder (an
\* empty imageUrls was answered 400 at line 15)
generateSkipping(fetched, duration) ==
  LET lines == fetchLines(fetched, duration)
      written == {i \in 0..(Len(fetched) - 1) : fetched[i + 1]}
  IN  IF Len(lines) = 0
      THEN [status |-> 400, lines |-> <<>>, written |-> written]
      ELSE [status |-> 0,
            lines |-> Append(lines, [t |-> "file", f |-> (Len(lines) \div 2) - 1]),
            written |-> written]

SkipInputs ==
  UNION {[fetched : [1..n -> BOOLEAN], duration : Durations] : n \in 1..MaxFetched}

SkipInit ==
  /\ jobs = [id \in Uuid |-> NoJob]
  /\ fs = [p \in Paths |-> "absent"]
  /\ req = [r \in Req |-> IdleReq]
  /\ resp = NoResp
  /\ boots = 0
  /\ rUrl = Null
  /\ rWorld = <<>>
  /\ rIdx = 0
  /\ rTried = <<>>
  /\ rLast = Null
  /\ rGood = 0
  /\ rResult = Ended("idle", Null, 0)
  /\ pArg \in SkipInputs
  /\ pRes = <<>>
  /\ db = IdleDb
  /\ pool = [k \in Conns |-> IdleConn]
  /\ call = [c \in Calls |-> IdleCall]

CallGenerateSkipping ==
  /\ pRes = <<>>
  /\ pRes' = <<generateSkipping(pArg.fetched, pArg.duration)>>
  /\ UNCHANGED <<pArg, jobVars, resolveVars, creditVars>>

SkipSpec == SkipInit /\ [][CallGenerateSkipping]_vars

\* ===================================================================== claims
Terminal(rec) == rec.status \in {"done", "error"}
JobOf(r) == IF req[r].id \in Uuid THEN jobs[req[r].id] ELSE NoJob
\* the status GET /jobs/<id> reports for the request's job
Reported(r) == IF req[r].id \in Uuid THEN Poll(req[r].id).status ELSE ""
Started(r) == req[r].kind = "jobs" /\ req[r].id # 0
TimedOut(r) == Started(r) /\ JobOf(r) = JobRec("error", "TIME_LIMIT", 0)

JobHistories ==
  {<<>>, <<"queued", "running">>, <<"queued", "running", "done">>,
   <<"queued", "running", "error">>}

\* C1: the statuses written to a job's record are queued, running and then at
\* most one of done or error, the record always shows the last one written,
\* and no step changes a record whose status is done or error (not the late
\* timer, not the late end of a createSlideshow that was timed out).
C1_Lifecycle ==
  /\ [](\A r \in Req :
          /\ req[r].hist \in JobHistories
          /\ Started(r) => JobOf(r).status = req[r].hist[Len(req[r].hist)])
  /\ [][\A id \in Uuid : Terminal(jobs[id]) => jobs'[id] = jobs[id]]_vars

\* one job is done and its timer fired afterwards; another was timed out and
\* its createSlideshow ended afterwards
C1_Witness ==
  \E r1, r2 \in Req :
    /\ Started(r1) /\ JobOf(r1).status = "done" /\ req[r1].timer = "fired"
    /\ TimedOut(r2) /\ req[r2].cs \in {"resolved", "rejected"}

\* C2: once a request's outcome is handed back (runJob has recorded done or
\* error, POST /generate has answered 200 or 500), the slide directory and the
\* loop directory made for it do not exist.
OutcomeHandedBack(q) ==
  \/ q.kind = "jobs" /\ q.race = "settled"
  \/ q.kind = "generate" /\ q.http \in {200, 500}

DirsGone(q) ==
  /\ q.tmpDir # 0 => fs[StillsDir(q.tmpDir)] = "absent"
  /\ q.loopDir # 0 => fs[LoopDir(q.loopDir)] = "absent"

C2_CleanupOnEveryExit == \A r \in Req : OutcomeHandedBack(req[r]) => DirsGone(req[r])

\* C3: every job that runJob has started gets the status done or error; when
\* the timer fires while createSlideshow is still at work, in whatever phase,
\* the job is recorded as error with reason TIME_LIMIT.
C3_JobsTerminate ==
  /\ \A r \in Req : (Started(r) /\ JobOf(r).status = "running") ~> Terminal(JobOf(r))
  /\ [][\A r \in Req :
          (req[r].timer = "pending" /\ req'[r].timer = "fired" /\ InProgress(req[r]))
            => jobs'[req[r].id] = JobRec("error", "TIME_LIMIT", 0)]_vars

\* a job was timed out while its stream-copy run was going on
C3_Witness == \E r \in Req : TimedOut(r) /\ req[r].cs = "loop"

\* C4: a job recorded as error TIME_LIMIT has no encoder run in progress.
EncoderRunning(q) == q.cs \in {"render", "loop"}

C4_EncoderStopped == \A r \in Req : TimedOut(r) => ~EncoderRunning(req[r])

\* C5: when none of a request's images could be prepared, createSlideshow is
\* rejected with 'All images failed to load', the request ends failed, no
\* concat list was written, no encoder run was started and neither the
\* single-pass file nor the output file was made.
C5_AllFailed ==
  \A r \in Req :
    req[r].survivors = "none" =>
      /\ req[r].cs = "rejected"
      /\ req[r].err = "All images failed to load"
      /\ req[r].listWrites = 0
      /\ req[r].renderCalls = 0
      /\ req[r].loopCalls = 0
      /\ fs[OnceFile(req[r].id)] = "absent"
      /\ fs[VideoFile(req[r].id)] = "absent"
      /\ req[r].kind = "generate" => req[r].http = 500
      /\ req[r].kind = "jobs" => JobOf(r).status = "error"

\* both kinds of request met it
C5_Witness ==
  \E r1, r2 \in Req :
    /\ req[r1].survivors = "none" /\ req[r1].kind = "jobs"
    /\ JobOf(r1) = JobRec("error", "All images failed to load", 0)
    /\ req[r2].survivors = "none" /\ req[r2].kind = "generate"

\* C6: with K >= 1 prepared images createSlideshow does not fail for the
\* images that failed, and the concat list it hands to the encoder has exactly
\* K (file, duration) pairs: the surviving images in input order, each with a
\* duration of at least MIN_DURATION (and then the repeated last file).
Increasing(q) == \A a, b \in 1..Len(q) : a < b => q[a] < q[b]

C6_ManifestOfSurvivors ==
  \A r \in Req :
    LET q == req[r]
        K == Len(q.okImgs)
    IN  /\ q.survivors = "some" => q.err # "All images failed to load" /\ q.listWrites = 1
        /\ (q.survivors = "some" /\ InProgress(q)) =>
             /\ K >= 1
             /\ Increasing(q.okImgs)
             /\ Len(q.manifest) = 2 * K + 1
             /\ \A k \in 1..K :
                  /\ q.manifest[2 * k - 1] = [t |-> "file", f |-> q.okImgs[k]]
                  /\ q.manifest[2 * k].t = "duration"
                  /\ q.manifest[2 * k].d >= MIN_DURATION
             /\ q.manifest[2 * K + 1].t = "file"

\* of two images the first failed and the second is in the list, with a
\* requested duration below the minimum
C6_Witness ==
  \E r \in Req :
    /\ req[r].cs = "render" /\ req[r].n = 2 /\ req[r].okImgs = <<1>>
    /\ req[r].duration = JsNum(300)

\* C7: every job accepted with 202 comes to be reported by GET /jobs/:id with
\* status done or error, also when the process is restarted meanwhile.
C7_AcceptedJobsReported ==
  \A r \in Req : (req[r].http = 202) ~> (Reported(r) \in {"done", "error"})

\* C8: GET /jobs/:id for an id without a record answers 200 with ok:true and
\* status done plus the video URL when video-<id>.mp4 exists, status queued
\* when it does not.
C8_PollWithoutRecord ==
  (resp.code # 0 /\ ~resp.hadRecord) =>
    /\ resp.code = 200
    /\ resp.ok
    /\ IF resp.fileExisted
       THEN resp.status = "done" /\ resp.url = resp.id
       ELSE resp.status = "queued" /\ resp.url = 0

\* after a restart a finished job's file is found
C8_Witness ==
  /\ boots > 0 /\ resp.code = 200 /\ ~resp.hadRecord /\ resp.fileExisted
  /\ \E r \in Req : req[r].kind = "jobs" /\ req[r].id = resp.id

\* C9: two requests whose createSlideshow is at work share no path: slide
\* directory, output file, single-pass file and loop directory all differ.
WorkPaths(q) ==
  {StillsDir(q.tmpDir), VideoFile(q.id), OnceFile(q.id)}
    \cup (IF q.loopDir # 0 THEN {LoopDir(q.loopDir)} ELSE {})

C9_DisjointPaths ==
  \A r1, r2 \in Req :
    (r1 # r2 /\ InProgress(req[r1]) /\ InProgress(req[r2]))
      => WorkPaths(req[r1]) \cap WorkPaths(req[r2]) = {}

\* a POST /generate and a job are both in their stream-copy run
C9_Witness ==
  \E r1, r2 \in Req :
    /\ req[r1].kind = "generate" /\ req[r1].cs = "loop"
    /\ req[r2].kind = "jobs" /\ req[r2].cs = "loop"

\* C10: resolveImageBuffer fetches the candidates of buildCandidates in their
\* order (descending size tokens first, the original URL last), returns the
\* first one that serves a usable image, goes on after every other attempt,
\* and returns null, without throwing, when all have been tried.
IsPrefix(a, b) == Len(a) <= Len(b) /\ \A k \in 1..Len(a) : a[k] = b[k]

LadderOrder(u, c) ==
  /\ c[Len(c)] = u
  /\ (u.valid /\ u.tok \in SizeTokens /\ u.ext \in ImageExts) =>
       /\ Len(c) = 7
       /\ \A k \in 1..5 : c[k].tok = "s-l" /\ ~c[k].query
       /\ \A k \in 1..4 : c[k].size > c[k + 1].size

C10_FirstUsableCandidate ==
  LET c == buildCandidates(rUrl)
  IN  (rResult.t # "idle") =>
        /\ LadderOrder(rUrl, c)
        /\ IsPrefix(rTried, c)
        /\ rResult.t # "threw"
        /\ rResult.t = "pending" => rGood = 0 /\ Len(rTried) < Len(c)
        /\ rResult.t = "found" =>
             /\ rGood = Len(rTried)
             /\ rResult.url = c[rGood]
             /\ Usable(rLast)
        /\ rResult.t = "null" => rGood = 0 /\ rTried = c

\* the two largest variants failed (one too small, one not reachable) and the
\* third was returned
C10_Witness == rResult.t = "found" /\ rGood = 3 /\ rUrl.tok = "w"

\* C11: when the largest variant is unreachable and the third-largest is
\* reachable with a body of at least MIN_BYTES, resolveImageBuffer ends with
\* the third-largest variant as the winning URL.
Unreachable(att) == att.net = "error" \/ ~att.ok
Reachable(att) == att.net = "response" /\ att.ok
ThirdLargest(u) == forceVariant(u, IF u.shape = "legacy" THEN 800 ELSE 1000)
ResolveEnded == rResult.t \in {"found", "null", "threw"}
ThirdWins == rResult.t = "found" /\ rResult.url = ThirdLargest(rUrl) /\ rResult.buf = 3

Accepted(x) == x # NonString /\ normalizeEbayUrl(x) # Null

OnlyTokenOrQuery(a, b) ==
  /\ Accepted(a) /\ Accepted(b) /\ a # b
  /\ [a EXCEPT !.tok = b.tok, !.size = b.size, !.query = b.query] = b

Cleaned == pArg # Null /\ pRes # <<>> /\ pArg.array

C12_OneSurvivor ==
  Cleaned =>
    \A i, j \in 1..Len(pArg.items) :
      (i < j /\ OnlyTokenOrQuery(pArg.items[i], pArg.items[j])) =>
        LET out == pRes[1]
            from == {k \in 1..Len(out) :
                       out[k] \in {normalizeEbayUrl(pArg.items[i]),
                                   normalizeEbayUrl(pArg.items[j])}}
        IN  /\ Cardinality(from) = 1
            /\ \A k \in from : out[k] = normalizeEbayUrl(pArg.items[i])

\* C13: cleanEbayImages returns no more than IMAGE_CAP URLs, with pairwise
\* different dedupe keys: the first min(IMAGE_CAP, D) of the D distinct
\* accepted URLs of its input, normalized, in input order; nothing for an
\* input that is no array.
KeyOf(x) == DedupeKey(normalizeEbayUrl(x))

Firsts(items) ==
  {i \in 1..Len(items) :
     /\ Accepted(items[i])
     /\ \A j \in 1..(i - 1) : Accepted(items[j]) => KeyOf(items[j]) # KeyOf(items[i])}

Rank(S, i) == Cardinality({j \in S : j <= i})

C13_FirstDistinctUpToCap ==
  (pArg # Null /\ pRes # <<>>) =>
    LET out == pRes[1]
        F == IF pArg.array THEN Firsts(pArg.items) ELSE {}
        D == Cardinality(F)
    IN  /\ Len(out) <= IMAGE_CAP
        /\ Len(out) = IF D < IMAGE_CAP THEN D ELSE IMAGE_CAP
        /\ \A a, b \in 1..Len(out) : a # b => DedupeKey(out[a]) # DedupeKey(out[b])
        /\ \A i \in F : Rank(F, i) <= Len(out) =>
                          out[Rank(F, i)] = normalizeEbayUrl(pArg.items[i])

\* a list of more than IMAGE_CAP distinct images, each given twice, after
\* which exactly IMAGE_CAP are returned
C13_Witness ==
  /\ Cleaned /\ Len(pArg.items) > 2 * IMAGE_CAP
  /\ Cardinality(Firsts(pArg.items)) > IMAGE_CAP
  /\ Len(pRes[1]) = IMAGE_CAP

\* C14: every createSlideshow at work, whether started by POST /generate or
\* by a job of POST /jobs, was given at most IMAGE_CAP image URLs.
C14_CapAtEveryCall == \A r \in Req : InProgress(req[r]) => req[r].n <= IMAGE_CAP

\* C15: normalizeEbayUrl applied to a URL it has returned accepts it and
\* returns the same URL.
C15_NormalizeIdempotent ==
  (Len(pRes) >= 1 /\ pRes[1] # Null) =>
    /\ normalizeEbayUrl(pRes[1]) = pRes[1]
    /\ Len(pRes) = 2 => pRes[2] = pRes[1]

\* a URL with a w token, a query and upper-case letters was rewritten, and
\* normalized a second time
C15_Witness ==
  /\ Len(pRes) = 2 /\ pRes[1] # Null /\ pRes[1] # pArg
  /\ pArg.tok = "w" /\ pArg.query /\ pArg.upper

\* C16: when the duration a request asks for is a number d (0 and values
\* below the minimum included), every duration entry of the concat list is
\* max(MIN_DURATION, d).
C16_DurationIsMaxOfMinAndRequested ==
  \A r \in Req :
    LET q == req[r]
    IN  (q.cs \in {"render", "loop"} /\ q.duration.t = "number") =>
          \A k \in 1..Len(q.manifest) :
            q.manifest[k].t = "duration" => q.manifest[k].d = Max2(MIN_DURATION, q.duration.v)

\* C17: for slide files f1..fK (K >= 1) and their durations the list that
\* writeConcatList writes has, in order, the file entry of each fi followed by
\* its duration entry, then one more file entry naming fK with no duration
\* after it, and no other file entry.
C17_ConcatListShape ==
  (pRes # <<>> /\ Len(pArg.slideFiles) >= 1) =>
    LET sf == pArg.slideFiles
        K == Len(sf)
        m == pRes[1]
    IN  /\ Len(m) = 2 * K + 1
        /\ \A i \in 1..K :
             /\ m[2 * i - 1] = [t |-> "file", f |-> sf[i]]
             /\ m[2 * i] = [t |-> "duration", d |-> pArg.durations[i]]
        /\ m[Len(m)] = [t |-> "file", f |-> sf[K]]
        /\ Cardinality({k \in 1..Len(m) : m[k].t = "file"}) = K + 1

\* three different slide files with three different durations were listed
C17_Witness ==
  /\ pRes # <<>> /\ pArg.slideFiles = <<0, 1, 2>>
  /\ pArg.durations = <<MIN_DURATION, 1000, 1500>>
  /\ Len(pRes[1]) = 7

\* C18: one run of createSlideshow prepares its images one after the other,
\* each once, and starts renderFromSlides once.  When that run ends, a
\* loopCount above 1 leads to one stream-copy run over a list that names the
\* single-pass file loopCount times; a loopCount of 1, a missing one or one
\* that is no number leads to the finished output file with no second run.
Asked(q) == IF q.loopCount.t = "number" THEN q.loopCount.v ELSE 1

C18_RenderOnceThenStreamCopy ==
  /\ [](\A r \in Req :
          LET q == req[r]
          IN  /\ q.i <= q.n /\ q.renderCalls <= 1 /\ q.loopCalls <= 1
              /\ q.cs = "prep" => q.renderCalls = 0 /\ q.loopCalls = 0
              /\ q.cs = "render" => q.i = q.n /\ q.renderCalls = 1 /\ q.loopCalls = 0
              /\ q.cs = "loop" => q.i = q.n /\ q.renderCalls = 1 /\ q.loopCalls = 1
              /\ q.cs = "resolved" => q.renderCalls = 1)
  /\ [][\A r \in Req :
          LET q == req[r]
          IN  /\ (q.cs = "prep" /\ req'[r].i # q.i) =>
                   (req'[r].i = q.i + 1 \/ req'[r].cs = "rejected")
              /\ (q.cs = "render" /\ req'[r].cs \in {"loop", "resolved"}) =>
                   IF Asked(q) > 1
                   THEN /\ req'[r].cs = "loop"
                        /\ req'[r].loopList = Asked(q)
                        /\ fs'[OnceFile(q.id)] = "complete"
                   ELSE /\ req'[r].cs = "resolved"
                        /\ req'[r].loopCalls = 0
                        /\ fs'[VideoFile(q.id)] = "complete"]_vars

\* the stream-copy run of a request of two images that asked for MaxLoops
\* loops is going on
C18_Witness ==
  \E r \in Req :
    /\ req[r].cs = "loop" /\ req[r].n = 2 /\ req[r].loopCount = JsNum(MaxLoops)
    /\ req[r].loopList = MaxLoops /\ req[r].renderCalls = 1

\* C19: the phases of a render follow one another and none is entered twice;
\* in particular every image is resolved before the compositing of any image
\* begins.  An image has been composited once its slide was written and
\* pushed; images are still being resolved as long as a prepareSlideJpg call,
\* which starts with resolveImageBuffer, is in flight or to come.
Composited(q) == Len(q.slideFiles) > 0
StillResolving(q) == q.cs = "prep" /\ q.i < q.n

C19_ResolveAllBeforeCompositing ==
  \A r \in Req : Composited(req[r]) => ~StillResolving(req[r])

\* C20: after an encoder run of a request reported an error the request has
\* ended failed, POST /generate with a 500 answer and a job with a record of
\* status error that carries the encoder's message, and no encoder run of the
\* request is going on or was started besides the ones before the error.
EncoderFailed(q) == q.err = "ffmpeg error"

NoRetry(q) ==
  q.cs = "rejected" /\ ~EncoderRunning(q) /\ q.renderCalls = 1 /\ q.loopCalls <= 1

BodyOf(r) == pArg[r]
BadBody(r) == ~BodyOf(r).array \/ BodyOf(r).items = <<>>
PathsOf(r) ==
  {StillsDir(uuidv4(r, 2)), VideoFile(uuidv4(r, 1)), OnceFile(uuidv4(r, 1)),
   LoopDir(uuidv4(r, 3))}

C21_BadBodyRejectedUntouched ==
  \A r \in Req :
    (req[r].kind = "generate" /\ BadBody(r)) =>
      /\ req[r].http = 400
      /\ req[r].cs = "none" /\ req[r].id = 0 /\ req[r].tmpDir = 0
      /\ req[r].listWrites = 0 /\ req[r].renderCalls = 0 /\ req[r].loopCalls = 0
      /\ \A p \in PathsOf(r) : fs[p] = "absent"

\* an empty array was rejected while the other request, with an image, is
\* being rendered
C21_Witness ==
  \E r1, r2 \in Req :
    /\ req[r1].kind = "generate" /\ BodyOf(r1) = MkList(TRUE, <<>>) /\ req[r1].http = 400
    /\ req[r2].kind = "generate" /\ req[r2].cs = "render"

\* C22: POST /jobs sets a job record and starts runJob exactly when at least
\* one URL of the body survives normalization, deduplication and the cap.
\* Then it answers 202 with a job id that was not in the table and with
\* count, the number of survivors (1 to IMAGE_CAP), and createSlideshow is
\* given that many images; otherwise it answers 400 and the step leaves the
\* job table as it was.
Survivors(r) ==
  LET D == IF BodyOf(r).array THEN Cardinality(Firsts(BodyOf(r).items)) ELSE 0
  IN  IF D < IMAGE_CAP THEN D ELSE IMAGE_CAP

PostedJobs(r) == req[r].kind = "free" /\ req'[r].kind = "jobs"

C22_JobIffSurvivor ==
  /\ [](\A r \in Req :
          req[r].kind = "jobs" =>
            IF Survivors(r) >= 1
            THEN /\ req[r].http = 202
                 /\ req[r].count = Survivors(r)
                 /\ req[r].count \in 1..IMAGE_CAP
                 /\ req[r].id \in Uuid
                 /\ jobs[req[r].id].status # "none"
                 /\ IsPrefix(<<"queued", "running">>, req[r].hist)
                 /\ req[r].cs # "none"
                 /\ \A r2 \in Req \ {r} : req[r2].id # req[r].id
            ELSE /\ req[r].http = 400
                 /\ req[r].id = 0 /\ req[r].count = 0
                 /\ req[r].hist = <<>> /\ req[r].cs = "none")
  /\ [][\A r \in Req :
          PostedJobs(r) =>
            IF req'[r].http = 202
            THEN /\ jobs[req'[r].id].status = "none"
                 /\ jobs'[req'[r].id].status = "running"
                 /\ req'[r].cs = "prep" /\ req'[r].n = req'[r].count
                 /\ \A id \in Uuid \ {req'[r].id} : jobs'[id] = jobs[id]
            ELSE jobs' = jobs /\ fs' = fs]_vars

\* with one job at work, a body of more than IMAGE_CAP images was accepted
\* with count IMAGE_CAP and a body with only a URL of another host rejected
C22_Witness ==
  \E r1, r2 \in Req :
    /\ req[r1].kind = "jobs" /\ req[r1].count = IMAGE_CAP
    /\ Len(BodyOf(r1).items) > IMAGE_CAP /\ InProgress(req[r1])
    /\ req[r2].kind = "jobs" /\ BodyOf(r2) = MkList(TRUE, <<OtherHost>>)
    /\ req[r2].http = 400

\* C24: once error (TIME_LIMIT included) has been written to a job's record,
\* the file video-<jobId>.mp4 does not exist, and GET /jobs/<jobId> does not
\* report the job as done, with or without the record in memory.
RecordedError(r) ==
  /\ Started(r)
  /\ \E k \in 1..Len(req[r].hist) : req[r].hist[k] = "error"

C24_NoVideoAfterError ==
  \A r \in Req :
    RecordedError(r) =>
      /\ ~ExistsSync(VideoFile(req[r].id))
      /\ Reported(r) # "done"

\* C25: GET /jobs/:id answers done only for an id whose file video-<id>.mp4
\* is completely written, also when the process that answers has no record
\* of the job.
C25_DoneOnlyWhenComplete ==
  \A r \in Req :
    (Started(r) /\ resp.code # 0 /\ resp.id = req[r].id /\ resp.status = "done")
      => fs[VideoFile(resp.id)] = "complete"

\* C27: a connection that addCredits or consumeCredits has released to the
\* pool has no transaction block open: whatever query failed, every BEGIN was
\* followed by a COMMIT or a ROLLBACK on it before the release.
C27_ReleasedWithoutOpenTxn ==
  \A k \in Conns : ~pool[k].busy => pool[k].txn = "idle"

\* C23: creditsGuard calls next only for a request whose consumeCredits
\* returned ok:true (the credits are then consumed); after ok:false it
\* answers 402, after a throw 500, and in neither case calls next.
ConsumedOk ==
  {c \in Calls : call[c].op = "consume" /\ call[c].out.t = "ok" /\ call[c].out.ok}

RECURSIVE SumAmount(_)
SumAmount(S) ==
  IF S = {} THEN 0
  ELSE LET c == CHOOSE x \in S : TRUE
       IN  call[c].amount + SumAmount(S \ {c})

RowsWith(reason) == {i \in DOMAIN db.txns : db.txns[i].reason = reason}

C23_NextOnlyAfterOk ==
  \A c \in Calls :
    call[c].op = "consume" =>
      /\ call[c].guard = "next" <=> c \in ConsumedOk
      /\ call[c].guard = "next" =>
           \E i \in RowsWith("consume") : db.txns[i].delta = 0 - call[c].amount
      /\ (call[c].out.t = "ok" /\ ~call[c].out.ok) => call[c].guard = "402"
      /\ call[c].out.t = "threw" => call[c].guard = "500"
      /\ call[c].out.t = "none" => call[c].guard = "none"

\* one request went on to the handler and another was refused for lack of
\* credits, no query having failed
C23_Witness ==
  \E c1, c2 \in Calls :
    /\ call[c1].guard = "next"
    /\ call[c2].guard = "402" /\ call[c2].out.remaining < call[c2].amount
    /\ db.fails = 0

\* C26: whatever the interleaving of consumeCredits and addCredits calls on
\* the licence, credits_used never exceeds credits_total; a consumeCredits
\* call returns ok:true in the step that adds exactly its amount to
\* credits_used and exactly one credit_txns row, and a call that returns
\* ok:false has written nothing and changes neither table.
Returns(c, ok) ==
  /\ call[c].op = "consume" /\ call[c].out.t = "none"
  /\ call'[c].out.t = "ok" /\ call'[c].out.ok = ok

C26_NeverOverspent ==
  /\ [](/\ db.row.used <= db.row.total
        /\ db.row.used = db.row0.used + SumAmount(ConsumedOk)
        /\ Cardinality(RowsWith("consume")) = Cardinality(ConsumedOk)
        /\ \A c \in Calls :
             call[c].pc = "rollback" =>
               ~pool[call[c].k].wrote /\ pool[call[c].k].ins = <<>>)
  /\ [][\A c \in Calls :
          /\ Returns(c, TRUE) =>
               /\ db'.row = [db.row EXCEPT !.used = @ + call[c].amount]
               /\ db'.txns = Append(db.txns, TxnRow(0 - call[c].amount, "consume", 0))
          /\ Returns(c, FALSE) => db'.row = db.row /\ db'.txns = db.txns]_vars

\* of two calls for the last credit, the one that started later got it and
\* the earlier one was refused
C26_Witness ==
  \E c1, c2 \in Calls :
    /\ c1 < c2
    /\ call[c1].op = "consume" /\ call[c1].amount = 1 /\ call[c1].out = Out(FALSE, 0)
    /\ call[c2].op = "consume" /\ call[c2].amount = 1 /\ call[c2].out = Out(TRUE, 0)
    /\ db.row = Row(2, 2)

\* C29: addCredits calls that carry the same event reference credit the
\* licence once: credits_total has grown by one delta per reference (and by
\* the delta of every call without one), and credit_txns holds one row per
\* reference.
Added == {c \in Calls : call[c].op = "add" /\ call[c].out.t = "returned"}
AddedRefs == {call[c].ref : c \in Added} \ {0}
DeltaOf(ref) == call[CHOOSE c \in Added : call[c].ref = ref].amount

RECURSIVE SumDeltas(_)
SumDeltas(R) ==
  IF R = {} THEN 0
  ELSE LET ref == CHOOSE x \in R : TRUE
       IN  DeltaOf(ref) + SumDeltas(R \ {ref})

C29_CreditedOncePerEvent ==
  /\ \A ref \in AddedRefs :
       Cardinality({i \in DOMAIN db.txns :
                      db.txns[i].ref = ref /\ db.txns[i].reason # "consume"}) = 1
  /\ db.row.total = db.row0.total + SumDeltas(AddedRefs)
                      + SumAmount({c \in Added : call[c].ref = 0})

\* C28: a request whose x-signature is the hex-encoded HMAC-SHA256 of its
\* raw body under LEMON_WEBHOOK_SECRET is accepted (the handler goes on to
\* the event and answers neither Bad signature nor an error), and addCredits
\* is called only for requests that passed the signature check.
RightlySigned(rq) ==
  rq.secretSet /\ rq.sig = HexText(Hmac("LEMON_WEBHOOK_SECRET", rq.body))

C28_SignedRequestsAccepted ==
  pRes # <<>> =>
    /\ RightlySigned(pArg) => pRes[1].passed /\ pRes[1].status = 200
    /\ pRes[1].added => pRes[1].passed

\* C30: in the /generate variant that skips images whose fetch fails, when at
\* least one image was fetched the last entry of the concat list names the
\* file of the last image fetched, the same file as the last entry with a
\* duration, and every file the list names was written.
C30_RepeatedEntryIsLastFetched ==
  (pRes # <<>> /\ \E i \in DOMAIN pArg.fetched : pArg.fetched[i]) =>
    LET lines == pRes[1].lines
        lastFetched == CHOOSE i \in pRes[1].written : \A j \in pRes[1].written : j <= i
    IN  /\ Len(lines) >= 3
        /\ lines[Len(lines)] = [t |-> "file", f |-> lastFetched]
        /\ lines[Len(lines)] = lines[Len(lines) - 2]
        /\ \A k \in DOMAIN lines : lines[k].t = "file" => lines[k].f \in pRes[1].written

====
